---- MODULE Spec2Model ----
(***************************************************************************)
(* Model of modmod's book.rs: the Book / Chapter / Section / SubSection    *)
(* tree, the fluent builder chain that assembles it, and Book::render,     *)
(* which walks the tree and writes book.toml, SUMMARY.md and one markdown  *)
(* file per section.                                                       *)
(*                                                                         *)
(* Text is a sequence of symbols.  A symbol is one character ("#", " ",    *)
(* "\n", a letter, a digit) or an opaque chunk of characters none of which *)
(* takes part in a pattern of render ("Unit", "[modmod:exercise_").        *)
(***************************************************************************)
EXTENDS Integers, Sequences, FiniteSets, TLC

VARIABLES
    book,            \* BookBuilder.book, after build() the Book
    chapterBuilder,  \* the live ChapterBuilder's chapter: <<>> or <<chapter>>
    sectionBuilder,  \* the live SectionBuilder's section: <<>> or <<section>>
    pc,              \* position of the program: builder chain, render step, result
    chapter_i,       \* render: the (1..) counter zipped with the chapters
    section_i,       \* render: the (1..) counter zipped with the sections
    subsection_i,    \* render: the (1..) counter zipped with the subsections
    chapters_iter,   \* render: chapters the iterator self.chapters.iter() yielded
    sections_iter,   \* render: sections the iterator chapter.sections.iter() yielded
    subsections_iter,\* render: subsections the iterator of the section yielded
    content,         \* render: the local `content` read from the source file
    root,            \* render: the out_dir of the running render (0: none yet)
    trees,           \* the filesystem: per out_dir, [dirs, files]
    addedChapters,   \* history: the chapters ChapterBuilder::add was called on
    addedSections,   \* history: the sections SectionBuilder::add was called on
                     \*          since the live ChapterBuilder was opened
    calledSubSections, \* history: the subsection() calls on the live SectionBuilder
    oplog,           \* history: the filesystem operations of the running render
    createdBy        \* history: per file of the running render, the steps that
                     \*          created it

vars == <<book, chapterBuilder, sectionBuilder, pc, chapter_i, section_i,
          subsection_i, chapters_iter, sections_iter, subsections_iter,
          content, root, trees, addedChapters, addedSections, calledSubSections,
          oplog, createdBy>>

builderVars == <<book, chapterBuilder, sectionBuilder, addedChapters,
                 addedSections, calledSubSections>>
chapterLoop == <<chapter_i, chapters_iter>>
sectionLoop == <<section_i, sections_iter>>
subsectionLoop == <<subsection_i, subsections_iter>>
loopVars == <<chapterLoop, sectionLoop, subsectionLoop>>
renderVars == <<loopVars, content, root, trees, oplog, createdBy>>

----------------------------------------------------------------------------
(* Bounds of the model *)

\* most nodes (chapters + sections + subsections) the builder chain creates
MaxNodes == 5
\* most renders of one Book, each into a fresh out_dir
MaxRenders == 2

----------------------------------------------------------------------------
(* Sequences and text *)

RECURSIVE Concat(_)
Concat(ss) == IF ss = <<>> THEN <<>> ELSE Head(ss) \o Concat(Tail(ss))

IsPrefix(p, s) == Len(p) <= Len(s) /\ SubSeq(s, 1, Len(p)) = p

MatchAt(s, pat, i) ==
    /\ i + Len(pat) - 1 <= Len(s)
    /\ SubSeq(s, i, i + Len(pat) - 1) = pat

Contains(s, pat) == \E i \in 1..Len(s) : MatchAt(s, pat, i)

\* str::replace: every non-overlapping match of pat, found left to right
RECURSIVE ReplaceFrom(_, _, _, _)
ReplaceFrom(s, pat, to, i) ==
    IF i > Len(s) THEN <<>>
    ELSE IF MatchAt(s, pat, i) THEN to \o ReplaceFrom(s, pat, to, i + Len(pat))
    ELSE <<s[i]>> \o ReplaceFrom(s, pat, to, i + 1)

Replace(s, pat, to) == ReplaceFrom(s, pat, to, 1)

WhiteSpace == {" ", "\n", "\t"}

RECURSIVE TrimStart(_)
TrimStart(s) ==
    IF s # <<>> /\ Head(s) \in WhiteSpace THEN TrimStart(Tail(s)) ELSE s

RECURSIVE TrimEnd(_)
TrimEnd(s) ==
    IF s # <<>> /\ s[Len(s)] \in WhiteSpace
    THEN TrimEnd(SubSeq(s, 1, Len(s) - 1)) ELSE s

\* str::trim
Trim(s) == TrimEnd(TrimStart(s))

DigitChars == <<"0", "1", "2", "3", "4", "5", "6", "7", "8", "9">>

\* Display of an integer counter: its decimal digits
RECURSIVE Decimal(_)
Decimal(n) ==
    IF n < 10 THEN <<DigitChars[n + 1]>>
    ELSE Decimal(n \div 10) \o <<DigitChars[(n % 10) + 1]>>

----------------------------------------------------------------------------
(* Titles, paths and source files the model draws its inputs from *)

UpperChars == <<"A", "B", "C", "E", "X", "Y">>
LowerChars == <<"a", "b", "c", "e", "x", "y">>
AlnumChars ==
    {UpperChars[i] : i \in DOMAIN UpperChars}
        \cup {LowerChars[i] : i \in DOMAIN LowerChars}
        \cup {DigitChars[i] : i \in DOMAIN DigitChars}

BookTitle == <<"T">>
ChapterTitles == {<<"X">>, <<"Y">>}
\* "Ab" and "ab" share the tag "ab"; "a b" has the tag "a-b"
SectionTitles == {<<"A", "b">>, <<"a", "b">>, <<"a", " ", "b">>}
SubSectionTitles == {<<"E">>}

DirToken == <<"#", "[modmod:exercise_", "dir]">>
RefToken == <<"#", "[modmod:exercise_", "ref]">>

\* The subsection source files that exist, by path
SourceFiles ==
    [ hello      |-> <<"#", " ", "Hello", "\n">>,
      title_body |-> <<"#", " ", "Title", "\n", "body">>,
      ref_head   |-> <<"#", " ">> \o RefToken \o <<"\n">>,
      dir_line   |-> <<"Path:", " ">> \o DirToken,
      exercise   |-> <<"Intro", "\n", "#", " ", "Hello", " ">> \o RefToken \o <<"\n">>,
      mixed      |-> <<"\n", "#", " ", "One", "\n", "#", "#", " ", "Two", " ">>
                        \o DirToken \o <<"\n", "#", " ">> \o DirToken \o <<" ", "\n">>,
      split      |-> <<"#", "[modmod:exercise_">> \o DirToken \o <<"\n">> ]

MissingFile == "missing"
ContentPaths == DOMAIN SourceFiles \cup {MissingFile}

\* A byte of a path that is not valid UTF-8, and what to_string_lossy shows for it
InvalidByte == "\\xFF"
ReplacementChar == "U+FFFD"

OutDirs ==
    { <<"/tmp/ex1">>,
      <<"/tmp/">> \o RefToken,
      <<"/tmp/">> \o DirToken,
      <<"ref]">>,
      <<"/tmp/", InvalidByte>> }

\* What the builder chain of the whole-program specification passes to subsection()
BuilderContentPaths == {"exercise", MissingFile}
BuilderOutDirs == {<<"/tmp/ex1">>}

----------------------------------------------------------------------------
(* The document model *)

NewBook(title) == [title |-> title, chapters |-> <<>>]
NewChapter(title) == [title |-> title, sections |-> <<>>]
NewSection(title) == [title |-> title, subsections |-> <<>>]
NewSubSection(title, path, out_dir) ==
    [title |-> title, content |-> path, out_dir |-> out_dir]

PushSubSection(section, subsection) ==
    [section EXCEPT !.subsections = Append(@, subsection)]

PushSection(chapter, section) ==
    [chapter EXCEPT !.sections = Append(@, section)]

\* a ChapterBuilder::add that puts the chapter first
PushChapterFront(b, chapter) ==
    [b EXCEPT !.chapters = <<chapter>> \o @]

PushChapter(b, chapter) ==
    [b EXCEPT !.chapters = Append(@, chapter)]

RECURSIVE SumSeq(_)
SumSeq(ns) == IF ns = <<>> THEN 0 ELSE Head(ns) + SumSeq(Tail(ns))

SectionNodes(section) == 1 + Len(section.subsections)
ChapterNodes(chapter) ==
    1 + SumSeq([i \in DOMAIN chapter.sections |-> SectionNodes(chapter.sections[i])])
BookNodes(b) ==
    SumSeq([i \in DOMAIN b.chapters |-> ChapterNodes(b.chapters[i])])

\* Nodes created so far and still alive: in the book or in a live builder
LiveNodes ==
    BookNodes(book)
        + (IF chapterBuilder = <<>> THEN 0 ELSE ChapterNodes(chapterBuilder[1]))
        + (IF sectionBuilder = <<>> THEN 0 ELSE SectionNodes(sectionBuilder[1]))

----------------------------------------------------------------------------
(* The collaborators of book.rs: crate::to_tag and crate::io *)

ToLowerChar(c) ==
    IF \E i \in DOMAIN UpperChars : UpperChars[i] = c
    THEN LowerChars[CHOOSE i \in DOMAIN UpperChars : UpperChars[i] = c]
    ELSE c

\* slugify: lowercase, every non-alphanumeric character becomes the separator
to_tag(title) ==
    [i \in DOMAIN title |->
        IF title[i] \in AlnumChars THEN ToLowerChar(title[i]) ELSE "-"]

EmptyTree == [dirs |-> {}, files |-> <<>>]

\* create_dir_all: the directory and its missing parents
create_dir_all(tree, dir) ==
    [tree EXCEPT !.dirs = @ \cup {SubSeq(dir, 1, n) : n \in 1..Len(dir)}]

\* create_file: truncate or create
create_file(tree, path) ==
    [tree EXCEPT !.files = (path :> <<>>) @@ @]

\* write_all / write_fmt on the handle create_file returned: the data goes
\* after what the handle wrote before
write_all(tree, path, data) ==
    [tree EXCEPT !.files = (path :> (@[path] \o data)) @@ @]

CanRead(path) == path \in DOMAIN SourceFiles
read_to_string(path) == SourceFiles[path]

----------------------------------------------------------------------------
(* Book::render: paths and texts *)

BookOutDir == <<"book">>
BookSrcDir == BookOutDir \o <<"src">>
BookTomlPath == BookOutDir \o <<"book.toml">>
SummaryMdPath == BookSrcDir \o <<"SUMMARY.md">>

BookToml ==
    << "[book]", "\n",
       "language = \"en\"", "\n",
       "multilingual = false", "\n",
       "\n",
       "[build]", "\n",
       "build-dir = \"./target\"", "\n" >>

SummaryHeader == <<"#", " ", "Summary", "\n", "\n">>

\* one file name for every section
SectionFileNameFixed(title) == <<"section", ".md">>

\* Path::new(&to_tag(title)).with_extension("md"); a path with no file name
\* is left as it is
SectionFileName(title) ==
    IF to_tag(title) = <<>> THEN <<>> ELSE to_tag(title) \o <<".md">>

\* book_src_dir.join(&section_file_name)
SectionFilePath(title) == BookSrcDir \o SectionFileName(title)

\* a chapter line that links to a file of the chapter
ChapterLineLinked(title) ==
    <<"-", " ", "[">> \o title \o <<"]", "(">> \o SectionFileName(title) \o <<")", "\n">>

ChapterLine(title) == <<"-", " ", "[">> \o title \o <<"]", "(", ")", "\n">>

SectionLine(title) ==
    <<"\t", "-", " ", "[">> \o title \o <<"]", "(">>
        \o SectionFileName(title) \o <<")", "\n">>

UnitHeading(c, s, title) ==
    <<"#", " ", "Unit", " ">> \o Decimal(c) \o <<".">> \o Decimal(s)
        \o <<" ", "-", " ">> \o title \o <<"\n", "\n">>

\* format!("{chapter_i}.{section_i}.{subsection_i}")
ExerciseRef(c, s, u) ==
    Decimal(c) \o <<".">> \o Decimal(s) \o <<".">> \o Decimal(u)

ExerciseHeading(c, s, u, title) ==
    <<"#", "#", " ", "Exercise", " ">> \o ExerciseRef(c, s, u)
        \o <<":", " ">> \o title \o <<"\n", "\n">>

\* Path::to_string_lossy
ToStringLossy(path) ==
    [i \in DOMAIN path |-> IF path[i] = InvalidByte THEN ReplacementChar ELSE path[i]]

InsertExerciseDir(text, out_dir) == Replace(text, DirToken, ToStringLossy(out_dir))

InsertExerciseRef(text, ref) == Replace(text, RefToken, ref)

DemoteHeadings(text) == Replace(text, <<"\n", "#", " ">>, <<"\n", "#", "#", "#", " ">>)

\* the references are inserted before the exercise directories
SubstituteRefFirst(raw, out_dir, ref) ==
    DemoteHeadings(InsertExerciseDir(InsertExerciseRef(raw, ref), out_dir))

\* The three chained replace calls on the content read
Substitute(raw, out_dir, ref) ==
    DemoteHeadings(InsertExerciseRef(InsertExerciseDir(raw, out_dir), ref))

\* format_args!("{}\n", content.trim())
ContentBlock(text) == Trim(text) \o <<"\n">>

----------------------------------------------------------------------------
(* The builder chain *)

\* Book::builder
Init ==
    /\ book = NewBook(BookTitle)
    /\ chapterBuilder = <<>>
    /\ sectionBuilder = <<>>
    /\ pc = "builder"
    /\ chapter_i = 0 /\ section_i = 0 /\ subsection_i = 0
    /\ chapters_iter = 0 /\ sections_iter = 0 /\ subsections_iter = 0
    /\ content = <<>>
    /\ root = 0
    /\ trees = [r \in 1..MaxRenders |-> EmptyTree]
    /\ addedChapters = <<>>
    /\ addedSections = <<>>
    /\ calledSubSections = <<>>
    /\ oplog = <<>>
    /\ createdBy = <<>>

\* BookBuilder::chapter: borrows the BookBuilder until the ChapterBuilder is gone
BookBuilderChapter(title) ==
    /\ pc = "builder"
    /\ chapterBuilder = <<>>
    /\ LiveNodes < MaxNodes
    /\ chapterBuilder' = <<NewChapter(title)>>
    /\ addedSections' = <<>>
    /\ UNCHANGED <<book, sectionBuilder, addedChapters, calledSubSections, pc, renderVars>>

\* ChapterBuilder::section: borrows the ChapterBuilder until the SectionBuilder is gone
ChapterBuilderSection(title) ==
    /\ pc = "builder"
    /\ chapterBuilder # <<>>
    /\ sectionBuilder = <<>>
    /\ LiveNodes < MaxNodes
    /\ sectionBuilder' = <<NewSection(title)>>
    /\ calledSubSections' = <<>>
    /\ UNCHANGED <<book, chapterBuilder, addedChapters, addedSections, pc, renderVars>>

\* SectionBuilder::subsection
SectionBuilderSubsection(title, path, out_dir) ==
    /\ pc = "builder"
    /\ sectionBuilder # <<>>
    /\ LiveNodes < MaxNodes
    /\ sectionBuilder' =
           <<PushSubSection(sectionBuilder[1], NewSubSection(title, path, out_dir))>>
    /\ calledSubSections' =
           Append(calledSubSections, [title |-> title, content |-> path, out_dir |-> out_dir])
    /\ UNCHANGED <<book, chapterBuilder, addedChapters, addedSections, pc, renderVars>>

\* SectionBuilder::add
SectionBuilderAdd ==
    /\ pc = "builder"
    /\ sectionBuilder # <<>>
    /\ chapterBuilder' = <<PushSection(chapterBuilder[1], sectionBuilder[1])>>
    /\ sectionBuilder' = <<>>
    /\ addedSections' =
           Append(addedSections,
                  [title |-> sectionBuilder[1].title, subsections |-> calledSubSections])
    /\ calledSubSections' = <<>>
    /\ UNCHANGED <<book, addedChapters, pc, renderVars>>

\* ChapterBuilder::add: consumes the ChapterBuilder, so no SectionBuilder borrows it
ChapterBuilderAdd ==
    /\ pc = "builder"
    /\ chapterBuilder # <<>>
    /\ sectionBuilder = <<>>
    /\ book' = PushChapter(book, chapterBuilder[1])
    /\ chapterBuilder' = <<>>
    /\ addedChapters' =
           Append(addedChapters,
                  [title |-> chapterBuilder[1].title, sections |-> addedSections])
    /\ addedSections' = <<>>
    /\ UNCHANGED <<sectionBuilder, calledSubSections, pc, renderVars>>

\* A SectionBuilder that goes out of scope without add()
SectionBuilderDrop ==
    /\ pc = "builder"
    /\ sectionBuilder # <<>>
    /\ sectionBuilder' = <<>>
    /\ calledSubSections' = <<>>
    /\ UNCHANGED <<book, chapterBuilder, addedChapters, addedSections, pc, renderVars>>

\* A ChapterBuilder that goes out of scope without add()
ChapterBuilderDrop ==
    /\ pc = "builder"
    /\ chapterBuilder # <<>>
    /\ sectionBuilder = <<>>
    /\ chapterBuilder' = <<>>
    /\ addedSections' = <<>>
    /\ UNCHANGED <<book, sectionBuilder, addedChapters, calledSubSections, pc, renderVars>>

\* BookBuilder::build: consumes the BookBuilder, so no ChapterBuilder borrows it
BookBuilderBuild ==
    /\ pc = "builder"
    /\ chapterBuilder = <<>>
    /\ pc' = "built"
    /\ UNCHANGED <<builderVars, renderVars>>

----------------------------------------------------------------------------
(* Book::render, one action per filesystem call *)

\* counters that start at the index of the first element, as those of
\* enumerate() do
RangeStartZero == 1 - 1
\* counters that go on from one render of the process to the next
RangeStartStatic == root

\* the counters of zip(1..)
RangeStart == 1
RangeNext(i) == i + 1


CurChapter == book.chapters[chapters_iter]
CurSection == CurChapter.sections[sections_iter]
CurSubSection == CurSection.subsections[subsections_iter]

CurTree == trees[root]
SetTree(tree) == trees' = [trees EXCEPT ![root] = tree]
Log(op, path, data) == oplog' = Append(oplog, [op |-> op, path |-> path, data |-> data])
Creates(path, step) ==
    createdBy' =
        (path :> ((IF path \in DOMAIN createdBy THEN createdBy[path] ELSE {}) \cup {step}))
            @@ createdBy

\* for (chapter, chapter_i) in self.chapters.iter().zip(1..): the next turn, or Ok(())
NextChapter(first) ==
    LET pos == IF first THEN 0 ELSE chapters_iter IN
    IF pos < Len(book.chapters)
    THEN /\ pc' = "chapter_line"
         /\ chapters_iter' = pos + 1
         /\ chapter_i' = IF first THEN RangeStart ELSE RangeNext(chapter_i)
         /\ sections_iter' = 0 /\ section_i' = 0
         /\ subsections_iter' = 0 /\ subsection_i' = 0
    ELSE /\ pc' = "ok"
         /\ chapters_iter' = 0 /\ chapter_i' = 0
         /\ sections_iter' = 0 /\ section_i' = 0
         /\ subsections_iter' = 0 /\ subsection_i' = 0

\* for (section, section_i) in chapter.sections.iter().zip(1..): the next turn,
\* or the end of the chapter's turn
NextSection(first) ==
    LET pos == IF first THEN 0 ELSE sections_iter IN
    /\ IF pos < Len(CurChapter.sections)
       THEN /\ pc' = "section_line"
            /\ sections_iter' = pos + 1
            /\ section_i' = IF first THEN RangeStart ELSE RangeNext(section_i)
       ELSE /\ pc' = "chapter_end"
            /\ sections_iter' = 0 /\ section_i' = 0
    /\ subsections_iter' = 0 /\ subsection_i' = 0
    /\ UNCHANGED chapterLoop

\* for (subsection, subsection_i) in section.subsections.iter().zip(1..): the
\* next turn, or the next turn of the loop around it
NextSubSection(first) ==
    LET pos == IF first THEN 0 ELSE subsections_iter IN
    IF pos < Len(CurSection.subsections)
    THEN /\ pc' = "exercise_heading"
         /\ subsections_iter' = pos + 1
         /\ subsection_i' = IF first THEN RangeStart ELSE RangeNext(subsection_i)
         /\ UNCHANGED <<chapterLoop, sectionLoop>>
    ELSE NextSection(FALSE)

\* Book::render is called on the built Book, with an out_dir not used before
Render ==
    /\ pc \in {"built", "ok"}
    /\ root < MaxRenders
    /\ root' = root + 1
    /\ pc' = "create_dir_all"
    /\ oplog' = <<>>
    /\ createdBy' = <<>>
    /\ UNCHANGED <<builderVars, loopVars, content, trees>>

CreateDirAll ==
    /\ pc = "create_dir_all"
    /\ SetTree(create_dir_all(CurTree, BookSrcDir))
    /\ Log("create_dir_all", BookSrcDir, <<>>)
    /\ pc' = "create_book_toml"
    /\ UNCHANGED <<builderVars, loopVars, content, root, createdBy>>

CreateBookToml ==
    /\ pc = "create_book_toml"
    /\ SetTree(create_file(CurTree, BookTomlPath))
    /\ Log("create_file", BookTomlPath, <<>>)
    /\ Creates(BookTomlPath, <<"book.toml">>)
    /\ pc' = "write_book_toml"
    /\ UNCHANGED <<builderVars, loopVars, content, root>>

WriteBookToml ==
    /\ pc = "write_book_toml"
    /\ SetTree(write_all(CurTree, BookTomlPath, BookToml))
    /\ Log("write", BookTomlPath, BookToml)
    /\ pc' = "create_summary_md"
    /\ UNCHANGED <<builderVars, loopVars, content, root, createdBy>>

CreateSummaryMd ==
    /\ pc = "create_summary_md"
    /\ SetTree(create_file(CurTree, SummaryMdPath))
    /\ Log("create_file", SummaryMdPath, <<>>)
    /\ Creates(SummaryMdPath, <<"SUMMARY.md">>)
    /\ pc' = "write_summary_header"
    /\ UNCHANGED <<builderVars, loopVars, content, root>>

WriteSummaryHeader ==
    /\ pc = "write_summary_header"
    /\ SetTree(write_all(CurTree, SummaryMdPath, SummaryHeader))
    /\ Log("write", SummaryMdPath, SummaryHeader)
    /\ NextChapter(TRUE)
    /\ UNCHANGED <<builderVars, content, root, createdBy>>

WriteChapterLine ==
    /\ pc = "chapter_line"
    /\ SetTree(write_all(CurTree, SummaryMdPath, ChapterLine(CurChapter.title)))
    /\ Log("write", SummaryMdPath, ChapterLine(CurChapter.title))
    /\ NextSection(TRUE)
    /\ UNCHANGED <<builderVars, content, root, createdBy>>

WriteSectionLine ==
    /\ pc = "section_line"
    /\ SetTree(write_all(CurTree, SummaryMdPath, SectionLine(CurSection.title)))
    /\ Log("write", SummaryMdPath, SectionLine(CurSection.title))
    /\ pc' = "create_section_file"
    /\ UNCHANGED <<builderVars, loopVars, content, root, createdBy>>

\* a section file that is there already is opened as it is
CreateSectionFileKeep ==
    /\ pc = "create_section_file"
    /\ IF SectionFilePath(CurSection.title) \in DOMAIN CurTree.files
       THEN UNCHANGED trees
       ELSE SetTree(create_file(CurTree, SectionFilePath(CurSection.title)))
    /\ Log("create_file", SectionFilePath(CurSection.title), <<>>)
    /\ Creates(SectionFilePath(CurSection.title), <<chapters_iter, sections_iter>>)
    /\ pc' = "unit_heading"
    /\ UNCHANGED <<builderVars, loopVars, content, root>>

CreateSectionFile ==
    /\ pc = "create_section_file"
    /\ SetTree(create_file(CurTree, SectionFilePath(CurSection.title)))
    /\ Log("create_file", SectionFilePath(CurSection.title), <<>>)
    /\ Creates(SectionFilePath(CurSection.title), <<chapters_iter, sections_iter>>)
    /\ pc' = "unit_heading"
    /\ UNCHANGED <<builderVars, loopVars, content, root>>

WriteUnitHeading ==
    /\ pc = "unit_heading"
    /\ SetTree(write_all(CurTree, SectionFilePath(CurSection.title),
                         UnitHeading(chapter_i, section_i, CurSection.title)))
    /\ Log("write", SectionFilePath(CurSection.title),
           UnitHeading(chapter_i, section_i, CurSection.title))
    /\ NextSubSection(TRUE)
    /\ UNCHANGED <<builderVars, content, root, createdBy>>

WriteExerciseHeading ==
    /\ pc = "exercise_heading"
    /\ SetTree(write_all(CurTree, SectionFilePath(CurSection.title),
                         ExerciseHeading(chapter_i, section_i, subsection_i,
                                         CurSubSection.title)))
    /\ Log("write", SectionFilePath(CurSection.title),
           ExerciseHeading(chapter_i, section_i, subsection_i, CurSubSection.title))
    /\ pc' = "read_content"
    /\ UNCHANGED <<builderVars, loopVars, content, root, createdBy>>

ReadContent ==
    /\ pc = "read_content"
    /\ CanRead(CurSubSection.content)
    /\ content' = read_to_string(CurSubSection.content)
    /\ Log("read", <<CurSubSection.content>>, <<>>)
    /\ pc' = "write_content"
    /\ UNCHANGED <<builderVars, loopVars, root, trees, createdBy>>

WriteContent ==
    LET text == Substitute(content, CurSubSection.out_dir,
                           ExerciseRef(chapter_i, section_i, subsection_i))
    IN
    /\ pc = "write_content"
    /\ SetTree(write_all(CurTree, SectionFilePath(CurSection.title), ContentBlock(text)))
    /\ Log("write", SectionFilePath(CurSection.title), ContentBlock(text))
    /\ content' = <<>>
    /\ NextSubSection(FALSE)
    /\ UNCHANGED <<builderVars, root, createdBy>>

WriteChapterEnd ==
    /\ pc = "chapter_end"
    /\ SetTree(write_all(CurTree, SummaryMdPath, <<"\n">>))
    /\ Log("write", SummaryMdPath, <<"\n">>)
    /\ NextChapter(FALSE)
    /\ UNCHANGED <<builderVars, content, root, createdBy>>

IoSteps ==
    { "create_dir_all", "create_book_toml", "write_book_toml", "create_summary_md",
      "write_summary_header", "chapter_line", "section_line", "create_section_file",
      "unit_heading", "exercise_heading", "read_content", "write_content",
      "chapter_end" }

\* a failure that removes what the render wrote before it returns the error
IoFailRollback ==
    /\ pc \in IoSteps
    /\ pc' = "err"
    /\ trees' = [trees EXCEPT ![root] = EmptyTree]
    /\ UNCHANGED <<builderVars, loopVars, content, root, oplog, createdBy>>

\* The call at hand fails with an I/O error and `?` returns Err(RenderBookError)
IoFail ==
    /\ pc \in IoSteps
    /\ pc' = "err"
    /\ UNCHANGED <<builderVars, renderVars>>

----------------------------------------------------------------------------
(* The program: a builder chain, build(), and renders of the Book *)

Build ==
    \/ \E title \in ChapterTitles : BookBuilderChapter(title)
    \/ \E title \in SectionTitles : ChapterBuilderSection(title)
    \/ \E title \in SubSectionTitles, path \in BuilderContentPaths,
          out_dir \in BuilderOutDirs : SectionBuilderSubsection(title, path, out_dir)
    \/ SectionBuilderAdd
    \/ ChapterBuilderAdd
    \/ SectionBuilderDrop
    \/ ChapterBuilderDrop
    \/ BookBuilderBuild

RenderStep ==
    \/ CreateDirAll
    \/ CreateBookToml
    \/ WriteBookToml
    \/ CreateSummaryMd
    \/ WriteSummaryHeader
    \/ WriteChapterLine
    \/ WriteSectionLine
    \/ CreateSectionFile
    \/ WriteUnitHeading
    \/ WriteExerciseHeading
    \/ ReadContent
    \/ WriteContent
    \/ WriteChapterEnd
    \/ IoFail

Next == Build \/ Render \/ RenderStep

Spec == Init /\ [][Next]_vars

----------------------------------------------------------------------------
(* Renders of Books whose subsections draw on every source file and out_dir *)

\* most chapters, sections of the last chapter and subsections of its last
\* section in such a Book
MaxPos == 2

\* the k-th section title of such a Book: "a", "aa", ...
NthTitle(k) == [i \in 1..k |-> "a"]

FillerSubSection == NewSubSection(<<"E">>, "hello", <<"/tmp/ex1">>)

\* c chapters, the last with s sections, the last of these with u subsections,
\* the last of these reading `path` with the given out_dir
ContentBook(c, s, u, path, out_dir) ==
    LET subsections ==
            [k \in 1..u |->
                IF k = u THEN NewSubSection(<<"E">>, path, out_dir) ELSE FillerSubSection]
        sections ==
            [k \in 1..s |->
                [title |-> NthTitle(k),
                 subsections |-> IF k = s THEN subsections ELSE <<>>]]
        chapters ==
            [k \in 1..c |->
                [title |-> <<"X">>, sections |-> IF k = c THEN sections ELSE <<>>]]
    IN [title |-> BookTitle, chapters |-> chapters]

InitContent ==
    /\ \E c \in 1..MaxPos, s \in 1..MaxPos, u \in 1..MaxPos,
          path \in ContentPaths, out_dir \in OutDirs :
            /\ book = ContentBook(c, s, u, path, out_dir)
            /\ addedChapters = book.chapters
    /\ chapterBuilder = <<>>
    /\ sectionBuilder = <<>>
    /\ pc = "built"
    /\ chapter_i = 0 /\ section_i = 0 /\ subsection_i = 0
    /\ chapters_iter = 0 /\ sections_iter = 0 /\ subsections_iter = 0
    /\ content = <<>>
    /\ root = 0
    /\ trees = [r \in 1..MaxRenders |-> EmptyTree]
    /\ addedSections = <<>>
    /\ calledSubSections = <<>>
    /\ oplog = <<>>
    /\ createdBy = <<>>

NextContent == Render \/ RenderStep

SpecContent == InitContent /\ [][NextContent]_vars

----------------------------------------------------------------------------
(* The operations of a render in which no call fails, as one sequence *)

Op(op, path, data) == [op |-> op, path |-> path, data |-> data]

PreludeOps ==
    << Op("create_dir_all", BookSrcDir, <<>>),
       Op("create_file", BookTomlPath, <<>>),
       Op("write", BookTomlPath, BookToml),
       Op("create_file", SummaryMdPath, <<>>),
       Op("write", SummaryMdPath, SummaryHeader) >>

SubSectionOps(c, s, u, section, subsection) ==
    LET raw == IF CanRead(subsection.content)
               THEN read_to_string(subsection.content) ELSE <<>>
    IN << Op("write", SectionFilePath(section.title),
             ExerciseHeading(c, s, u, subsection.title)),
          Op("read", <<subsection.content>>, <<>>),
          Op("write", SectionFilePath(section.title),
             ContentBlock(Substitute(raw, subsection.out_dir, ExerciseRef(c, s, u)))) >>

SectionOps(c, s, section) ==
    << Op("write", SummaryMdPath, SectionLine(section.title)),
       Op("create_file", SectionFilePath(section.title), <<>>),
       Op("write", SectionFilePath(section.title), UnitHeading(c, s, section.title)) >>
    \o Concat([u \in DOMAIN section.subsections |->
                  SubSectionOps(c, s, u, section, section.subsections[u])])

ChapterOps(c, chapter) ==
    <<Op("write", SummaryMdPath, ChapterLine(chapter.title))>>
    \o Concat([s \in DOMAIN chapter.sections |-> SectionOps(c, s, chapter.sections[s])])
    \o <<Op("write", SummaryMdPath, <<"\n">>)>>

RenderOps(b) ==
    PreludeOps \o Concat([c \in DOMAIN b.chapters |-> ChapterOps(c, b.chapters[c])])

\* The tree the first n operations of a sequence leave in a fresh out_dir
RECURSIVE ReplayTo(_, _)
ReplayTo(ops, n) ==
    IF n = 0 THEN EmptyTree
    ELSE LET tree == ReplayTo(ops, n - 1)
             last == ops[n]
         IN CASE last.op = "create_dir_all" -> create_dir_all(tree, last.path)
              [] last.op = "create_file" -> create_file(tree, last.path)
              [] last.op = "write" -> write_all(tree, last.path, last.data)
              [] OTHER -> tree

Replay(ops) == ReplayTo(ops, Len(ops))

----------------------------------------------------------------------------
(* Positions in a Book *)

ChapterPos(b) == DOMAIN b.chapters
SectionPos(b) ==
    UNION {{<<c, s>> : s \in DOMAIN b.chapters[c].sections} : c \in ChapterPos(b)}
SubSectionPos(b) ==
    UNION {{<<p[1], p[2], u>> : u \in DOMAIN b.chapters[p[1]].sections[p[2]].subsections} :
              p \in SectionPos(b)}
SectionAt(b, p) == b.chapters[p[1]].sections[p[2]]
SubSectionAt(b, p) == SectionAt(b, p).subsections[p[3]]
\* chapter-then-section order
Earlier(p, q) == p[1] < q[1] \/ (p[1] = q[1] /\ p[2] < q[2])
SameFile(b, p, q) == to_tag(SectionAt(b, p).title) = to_tag(SectionAt(b, q).title)
\* no later section of the book has the slug of the section at p
LastOfSlug(b, p) ==
    \A q \in SectionPos(b) : Earlier(p, q) => ~SameFile(b, p, q)

Files == CurTree.files

----------------------------------------------------------------------------
(* C6: after any sequence of builder operations the Book holds exactly the    *)
(* chapters add() was called on, in call order, each holding exactly the      *)
(* sections add() was called on before the chapter's own add(), in call       *)
(* order, each with its subsections in call order; what a live ChapterBuilder *)
(* or SectionBuilder holds is in no sequence of its parent before its add().  *)
C6_BookHoldsWhatWasAdded ==
    /\ book.chapters = addedChapters
    /\ chapterBuilder # <<>> => chapterBuilder[1].sections = addedSections
    /\ sectionBuilder # <<>> => sectionBuilder[1].subsections = calledSubSections
    /\ pc # "builder" => chapterBuilder = <<>> /\ sectionBuilder = <<>>

C6_Witness ==
    /\ pc = "builder"
    /\ Len(book.chapters) = 2
    /\ book.chapters[1].title # book.chapters[2].title
    /\ Len(book.chapters[1].sections) = 2
    /\ book.chapters[1].sections[1].title # book.chapters[1].sections[2].title
    /\ chapterBuilder # <<>>

----------------------------------------------------------------------------
(* C1: after a successful render SUMMARY.md is the '# Summary' header, a      *)
(* blank line and then, per chapter in sequence order, the line               *)
(* '- [<chapter title>]()', one line '\t- [<section title>](<slug>.md)' per   *)
(* section of that chapter in sequence order, and one blank line; so it has   *)
(* exactly C top-level lines and exactly the sum of S_c tab-indented lines,   *)
(* chapters with no section included.                                         *)
C1_SectionEntry(section) ==
    <<"\t", "-", " ", "[">> \o section.title \o <<"]", "(">>
        \o to_tag(section.title) \o <<".md", ")", "\n">>

C1_ChapterBlock(chapter) ==
    <<"-", " ", "[">> \o chapter.title \o <<"]", "(", ")", "\n">>
        \o Concat([s \in DOMAIN chapter.sections |-> C1_SectionEntry(chapter.sections[s])])
        \o <<"\n">>

C1_Summary(b) ==
    <<"#", " ", "Summary", "\n", "\n">>
        \o Concat([c \in DOMAIN b.chapters |-> C1_ChapterBlock(b.chapters[c])])

\* lines of the text whose first character is ch
C1_LinesStarting(text, ch) ==
    Cardinality({i \in DOMAIN text : text[i] = ch /\ (i = 1 \/ text[i - 1] = "\n")})

\* C1: SUMMARY.md of a successful render is that text, with C chapter lines
\* and the sum of S_c section lines
C1_SummaryListsTheTree ==
    pc = "ok" =>
        /\ Files[SummaryMdPath] = C1_Summary(book)
        /\ C1_LinesStarting(Files[SummaryMdPath], "-") = Len(book.chapters)
        /\ C1_LinesStarting(Files[SummaryMdPath], "\t") = Cardinality(SectionPos(book))

C1_Witness ==
    /\ pc = "ok"
    /\ Len(book.chapters) = 2
    /\ Len(book.chapters[1].sections) = 2
    /\ Len(book.chapters[2].sections) = 0

----------------------------------------------------------------------------
(* C5: when a filesystem call of render fails, render returns the error and   *)
(* makes no filesystem call after it; what it wrote before is exactly what    *)
(* the calls of a render without failure write up to that call, and it stays  *)
(* in place.  A render never succeeds when the content file of a subsection   *)
(* is missing.                                                                *)
C5_AbortLeavesPrefix ==
    /\ [](root > 0 =>
            LET ops == RenderOps(book) IN
            /\ IsPrefix(oplog, ops)
            /\ CurTree = Replay(oplog)
            /\ pc = "ok" => oplog = ops
            /\ pc = "ok" =>
                 \A p \in SubSectionPos(book) : CanRead(SubSectionAt(book, p).content))
    /\ [][pc = "err" => pc' = "err" /\ trees' = trees /\ oplog' = oplog]_vars
    /\ [][pc' = "err" => trees' = trees /\ oplog' = oplog]_vars

\* the render stopped at the read of a missing content file of the second subsection
C5_Witness ==
    /\ pc = "err"
    /\ Len(oplog) < Len(RenderOps(book))
    /\ RenderOps(book)[Len(oplog) + 1].op = "read"
    /\ RenderOps(book)[Len(oplog) + 1].path = <<MissingFile>>
    /\ \E i \in DOMAIN oplog : oplog[i].op = "read"

----------------------------------------------------------------------------
(* What the claims expect in a section file *)

\* the numbers joined by '.'
RECURSIVE Dotted(_)
Dotted(ns) ==
    IF Len(ns) = 1 THEN Decimal(ns[1])
    ELSE Decimal(ns[1]) \o <<".">> \o Dotted(Tail(ns))

UnitLine(p, title) ==
    <<"#", " ", "Unit", " ">> \o Dotted(p) \o <<" ", "-", " ">> \o title \o <<"\n", "\n">>

ExerciseLine(p, title) ==
    <<"#", "#", " ", "Exercise", " ">> \o Dotted(p) \o <<":", " ">> \o title
        \o <<"\n", "\n">>

\* the file of the section at position p, every number in it the position of
\* its chapter, section or subsection
PositionalFile(b, p) ==
    LET section == SectionAt(b, p) IN
    UnitLine(p, section.title)
    \o Concat([u \in DOMAIN section.subsections |->
          LET sub == section.subsections[u]
              q == <<p[1], p[2], u>>
          IN ExerciseLine(q, sub.title)
             \o ContentBlock(Substitute(read_to_string(sub.content), sub.out_dir,
                                        Dotted(q)))])

FileOf(b, p) == Files[SectionFilePath(SectionAt(b, p).title)]

----------------------------------------------------------------------------
(* C4: the numbers render emits in 'Unit c.s', in 'Exercise c.s.u' and for    *)
(* '#[modmod:exercise_ref]' are the 1-based positions of the chapter in the   *)
(* book, of the section in the chapter and of the subsection in the section,  *)
(* whatever the titles are.                                                   *)
C4_NumbersArePositions ==
    pc = "ok" =>
        /\ \A p \in SectionPos(book) :
              /\ \E i \in DOMAIN oplog :
                    oplog[i] = Op("write", SectionFilePath(SectionAt(book, p).title),
                                  UnitLine(p, SectionAt(book, p).title))
              /\ LastOfSlug(book, p) => FileOf(book, p) = PositionalFile(book, p)
        /\ \A q \in SubSectionPos(book) :
              \E i \in DOMAIN oplog :
                 oplog[i] = Op("write", SectionFilePath(SectionAt(book, q).title),
                               ExerciseLine(q, SubSectionAt(book, q).title))

C4_Witness ==
    /\ pc = "ok"
    /\ Len(book.chapters) = 2
    /\ book.chapters[1].title # book.chapters[2].title
    /\ Len(book.chapters[2].sections) = 2
    /\ ~SameFile(book, <<2, 1>>, <<2, 2>>)
    /\ Len(book.chapters[2].sections[2].subsections) = 1

----------------------------------------------------------------------------
(* C7: two successful renders of a Book into fresh output directories, the    *)
(* source files being the same, leave the same relative paths with the same   *)
(* contents.                                                                  *)
C7_RendersAgree ==
    pc = "ok" => \A r \in 1..root : trees[r] = trees[root]

C7_Witness ==
    /\ pc = "ok"
    /\ root = 2
    /\ SubSectionPos(book) # {}
    /\ Cardinality(SectionPos(book)) >= 2

----------------------------------------------------------------------------
(* C8, as claimed: in one render every output file is created by one step,    *)
(* also when two section titles have the same slug.                           *)
C8_OneStepPerFile ==
    \A path \in DOMAIN createdBy : Cardinality(createdBy[path]) = 1

DistinctSlugs(b) ==
    \A p, q \in SectionPos(b) : p # q => ~SameFile(b, p, q)

(* C8, amended: in one render of a Book whose section titles have pairwise    *)
(* distinct slugs, every output file is created by exactly one step, and a    *)
(* successful render leaves book.toml, SUMMARY.md and one file per section.   *)
C8_OneStepPerFileOfDistinctSlugs ==
    (root > 0 /\ DistinctSlugs(book)) =>
        /\ \A path \in DOMAIN createdBy : Cardinality(createdBy[path]) = 1
        /\ DOMAIN createdBy = DOMAIN Files
        /\ pc = "ok" => Cardinality(DOMAIN Files) = 2 + Cardinality(SectionPos(book))

C8_Witness ==
    /\ pc = "ok"
    /\ DistinctSlugs(book)
    /\ Cardinality(SectionPos(book)) = 2
    /\ Len(book.chapters) = 1

----------------------------------------------------------------------------
(* C9: when two sections have the same slug a render can succeed; the file    *)
(* then holds the 'Unit' heading and the subsections of the later section     *)
(* only, and SUMMARY.md lists both sections with the same link target.        *)
C9_LaterSectionOverwrites ==
    pc = "ok" =>
        \A p, q \in SectionPos(book) :
            (Earlier(p, q) /\ SameFile(book, p, q) /\ LastOfSlug(book, q)) =>
                /\ FileOf(book, q) = PositionalFile(book, q)
                /\ ~Contains(FileOf(book, q), <<"Unit", " ">> \o Dotted(p))
                /\ Contains(Files[SummaryMdPath], C1_SectionEntry(SectionAt(book, p)))
                /\ Contains(Files[SummaryMdPath], C1_SectionEntry(SectionAt(book, q)))
                /\ SectionFileName(SectionAt(book, p).title)
                      = SectionFileName(SectionAt(book, q).title)

C9_Witness ==
    /\ pc = "ok"
    /\ Len(book.chapters) = 2
    /\ Len(book.chapters[1].sections) = 1
    /\ Len(book.chapters[2].sections) = 1
    /\ book.chapters[1].sections[1].title = <<"A", "b">>
    /\ book.chapters[2].sections[1].title = <<"a", "b">>
    /\ Len(book.chapters[1].sections[1].subsections) = 1

----------------------------------------------------------------------------
(* C2, as claimed: render rewrites every line of the content that starts with *)
(* '# ' into a line that starts with '### ', the first line of the content    *)
(* included: '# Title\nbody' is written as '### Title\nbody'.                 *)

\* the text with '##' put before every line that starts with '# '
RECURSIVE C2_DemoteLinesFrom(_, _)
C2_DemoteLinesFrom(text, i) ==
    IF i > Len(text) THEN <<>>
    ELSE IF /\ MatchAt(text, <<"#", " ">>, i)
            /\ (i = 1 \/ text[i - 1] = "\n")
         THEN <<"#", "#", "#">> \o C2_DemoteLinesFrom(text, i + 1)
         ELSE <<text[i]>> \o C2_DemoteLinesFrom(text, i + 1)

C2_File(b, p) ==
    LET section == SectionAt(b, p) IN
    UnitLine(p, section.title)
    \o Concat([u \in DOMAIN section.subsections |->
          LET sub == section.subsections[u]
              q == <<p[1], p[2], u>>
              inserted ==
                  InsertExerciseRef(
                      InsertExerciseDir(read_to_string(sub.content), sub.out_dir),
                      Dotted(q))
          IN ExerciseLine(q, sub.title)
             \o ContentBlock(C2_DemoteLinesFrom(inserted, 1))])

\* C2, as claimed: every section file holds its contents with every line that
\* starts with '# ' demoted, the first one included
C2_EveryHeadingLineDemoted ==
    pc = "ok" =>
        \A p \in SectionPos(book) :
            LastOfSlug(book, p) => FileOf(book, p) = C2_File(book, p)

----------------------------------------------------------------------------
(* C3, as claimed: the content '# #[modmod:exercise_ref]\n' of the subsection *)
(* at chapter 1, section 1, subsection 1 is written as '### 1.1.1\n'.         *)
C3_RefHeadingDemoted ==
    (/\ pc = "ok"
     /\ Len(book.chapters) = 1
     /\ Len(book.chapters[1].sections) = 1
     /\ Len(book.chapters[1].sections[1].subsections) = 1
     /\ book.chapters[1].sections[1].subsections[1].content = "ref_head")
    =>
        FileOf(book, <<1, 1>>) =
            UnitLine(<<1, 1>>, book.chapters[1].sections[1].title)
            \o ExerciseLine(<<1, 1, 1>>, book.chapters[1].sections[1].subsections[1].title)
            \o <<"#", "#", "#", " ", "1", ".", "1", ".", "1", "\n">>

----------------------------------------------------------------------------
(* C10: each substitution works on the result of the one before it.  Where    *)
(* the content holds '#[modmod:exercise_dir]', an out_dir whose text holds    *)
(* '#[modmod:exercise_ref]' comes out with that token replaced by 'c.s.u',    *)
(* and an out_dir whose text holds '#[modmod:exercise_dir]' comes out with    *)
(* that token still in it.                                                    *)
C10_SubstitutionsAreChained ==
    pc = "ok" =>
        \A q \in SubSectionPos(book) :
            LET sub == SubSectionAt(book, q)
                raw == read_to_string(sub.content)
                dir == ToStringLossy(sub.out_dir)
                file == FileOf(book, q)
            IN  /\ (Contains(raw, DirToken) /\ Contains(dir, RefToken)) =>
                      /\ ~Contains(file, RefToken)
                      /\ Contains(file, Replace(dir, RefToken, Dotted(q)))
                /\ (Contains(raw, DirToken) /\ Contains(dir, DirToken)) =>
                      Contains(file, dir)
                /\ (sub.content = "dir_line" /\ dir = <<"/tmp/">> \o RefToken) =>
                      file = UnitLine(<<q[1], q[2]>>, SectionAt(book, q).title)
                          \o Concat([u \in 1..q[3] - 1 |->
                               ExerciseLine(<<q[1], q[2], u>>, <<"E">>)
                                  \o <<"#", " ", "Hello", "\n">>])
                          \o ExerciseLine(q, sub.title)
                          \o <<"Path:", " ", "/tmp/">> \o Dotted(q) \o <<"\n">>

C10_Witness ==
    /\ pc = "ok"
    /\ \E q \in SubSectionPos(book) :
          /\ q[3] = 2
          /\ SubSectionAt(book, q).content = "dir_line"
          /\ SubSectionAt(book, q).out_dir = <<"/tmp/">> \o RefToken

====
